---- MODULE Spec2Model ----
(***************************************************************************)
(* GrayKey Password Sanitizer (GKPSanitizer.py): the extraction engine     *)
(* (process_file_passwordlist, process_file_combolist), the output namer   *)
(* (find_available_filename), the two flows that wrap the engine with a    *)
(* spinner thread, and main's loop over flow invocations.                  *)
(*                                                                         *)
(* A Python str is a sequence of one-character strings; a text file is a   *)
(* sequence of such lines (readlines keeps each line's "\n"); the          *)
(* directory is a function from the names of the files that exist to       *)
(* their contents.                                                         *)
(***************************************************************************)
EXTENDS Integers, Sequences, FiniteSets, TLC

\* ------------------------------------------------------------- constants

\* Python's None, where a str or a tuple is expected (neither is ever empty
\* where the code tests for None).
None == <<>>

DEFAULT_ITEM_VALUE_PREFIX == <<"I","t","e","m"," ","v","a","l","u","e",":">>
DEFAULT_ACCOUNT_PREFIX == <<"A","c","c","o","u","n","t",":">>
DEFAULT_FILE_PREFIX_PW == "passwords_clean"
DEFAULT_FILE_PREFIX_COMBO == "combolist"
DEFAULT_MIN_LENGTH == 4
DEFAULT_MAX_LENGTH == 64
DEFAULT_MAX_NUMBER == 99

\* ------------------------------------------------------------- str

\* The characters str.strip() removes and the regex class \s matches.
Whitespace == {" ", "\t", "\n", "\r", "\f"}

\* s.startswith(t)
StartsWith(s, t) == Len(s) >= Len(t) /\ SubSeq(s, 1, Len(t)) = t

\* The start positions of the occurrences of t in s.
Occurrences(t, s) ==
    {i \in 1..(Len(s) - Len(t) + 1) :
        \A k \in 1..Len(t) : s[i + k - 1] = t[k]}

\* t in s
Contains(t, s) == Occurrences(t, s) # {}

\* The position str.split(t, 1) cuts at: the first occurrence.
SplitPoint(t, s) ==
    CHOOSE i \in Occurrences(t, s) : \A j \in Occurrences(t, s) : i <= j

\* s.split(t, 1)[-1], for t in s: the text after the cut.
AfterPrefix(t, s) == SubSeq(s, SplitPoint(t, s) + Len(t), Len(s))

RECURSIVE LStrip(_)
LStrip(s) ==
    IF s # <<>> /\ Head(s) \in Whitespace THEN LStrip(Tail(s)) ELSE s

RECURSIVE RStrip(_)
RStrip(s) ==
    IF s # <<>> /\ s[Len(s)] \in Whitespace
    THEN RStrip(SubSeq(s, 1, Len(s) - 1))
    ELSE s

\* s.strip()
Strip(s) == RStrip(LStrip(s))

\* line.split(prefix, 1)[-1].strip()
ExtractValue(prefix, line) == Strip(AfterPrefix(prefix, line))

\* [^@\s]+ matches all of s
PlainRun(s) ==
    Len(s) >= 1 /\ \A i \in 1..Len(s) : s[i] # "@" /\ s[i] \notin Whitespace

\* [^@\s]+@[^@\s]+\.[^@\s]+ matches all of s
EmailShape(s) ==
    \E a \in 1..Len(s) :
        /\ s[a] = "@"
        /\ PlainRun(SubSeq(s, 1, a - 1))
        /\ \E d \in (a + 1)..Len(s) :
              /\ s[d] = "."
              /\ PlainRun(SubSeq(s, a + 1, d - 1))
              /\ PlainRun(SubSeq(s, d + 1, Len(s)))

\* is_valid_email: re.match of ^...$, where $ also matches before a final "\n".
is_valid_email(email) ==
    \/ EmailShape(email)
    \/ /\ email # <<>>
       /\ email[Len(email)] = "\n"
       /\ EmailShape(SubSeq(email, 1, Len(email) - 1))

\* LengthOk without the upper bound.
LengthOk_NoUpperBound(password, lo, hi) == lo <= Len(password)

\* min_length <= len(password) <= max_length
LengthOk(password, lo, hi) == lo <= Len(password) /\ Len(password) <= hi

\* password.startswith('{"') or password.startswith('[')
LooksStructured(password) ==
    StartsWith(password, <<"{", "\"">>) \/ StartsWith(password, <<"[">>)

\* PasswordOk without the two startswith tests.
PasswordOk_NoShapeTest(password, lo, hi) ==
    lo <= Len(password) /\ Len(password) <= hi

\* The filter of lines 159-161 and 227-229.
PasswordOk(password, lo, hi) ==
    LengthOk(password, lo, hi) /\ ~LooksStructured(password)

\* f"{current_email}:{password_candidate}"
ComboLine(email, password) == email \o <<":">> \o password

\* ------------------------------------------------------------- file names

RECURSIVE Digits(_)
Digits(n) == IF n < 10 THEN <<n>> ELSE Append(Digits(n \div 10), n % 10)

\* f"{number:02d}": decimal, zero-padded to two digits
Format02d(number) == IF number < 10 THEN <<0, number>> ELSE Digits(number)

\* f"{base_name}_{number:02d}.txt"
NewName(base_name, number) == <<base_name, "_", Format02d(number), ".txt">>

RECURSIVE ScanFrom(_, _, _, _)
\* The loop of find_available_filename from `number` on: the first name that
\* is not among `names`, None when the range is used up.
ScanFrom(base_name, number, max_number, names) ==
    IF number > max_number THEN None
    ELSE IF NewName(base_name, number) \notin names
         THEN NewName(base_name, number)
         ELSE ScanFrom(base_name, number + 1, max_number, names)

\* find_available_filename with range(max_number): the last slot is never
\* tried.
find_available_filename_SkipsLast(base_name, max_number, names) ==
    ScanFrom(base_name, 0, max_number - 1, names)

\* find_available_filename with the os.path.exists test never true: the
\* first name is returned whether or not it exists.
find_available_filename_NoExistsTest(base_name, max_number, names) ==
    ScanFrom(base_name, 0, max_number, {})

\* find_available_filename(base_name, max_number) in a directory holding `names`
find_available_filename(base_name, max_number, names) ==
    ScanFrom(base_name, 0, max_number, names)

\* ------------------------------------------------------------- engine steps

\* Classify with the two branches in the other order.
Classify_PasswordFirst(line, account_prefix, password_prefix) ==
    IF Contains(password_prefix, line) THEN "password"
    ELSE IF Contains(account_prefix, line) THEN "account"
    ELSE "other"

\* if account_prefix in line: ... elif password_prefix in line: ...
Classify(line, account_prefix, password_prefix) ==
    IF Contains(account_prefix, line) THEN "account"
    ELSE IF Contains(password_prefix, line) THEN "password"
    ELSE "other"

\* AccountUpdate without the else branch: an invalid account line keeps the
\* email held.
AccountUpdate_KeepsOnInvalid(current, email_candidate) ==
    IF is_valid_email(email_candidate) THEN email_candidate ELSE current

\* current_email after an account line (220-223)
AccountUpdate(current, email_candidate) ==
    IF is_valid_email(email_candidate) THEN email_candidate ELSE None

\* IsDuplicate without the membership test.
IsDuplicate_Never(record, seen_records) == FALSE

\* `record not in seen`, negated
IsDuplicate(record, seen_records) == record \in seen_records

\* seen.add(record)
SeenAdd(seen_records, record) == seen_records \cup {record}

\* output_file.write(record + "\n")
WriteLine(content, record) == Append(content, record \o <<"\n">>)

\* CountDuplicate without the increment.
CountDuplicate_Forgotten(n) == n

\* duplicate_count += 1
CountDuplicate(n) == n + 1

\* unique_count += 1
CountUnique(n) == n + 1

\* ------------------------------------------------------------- inputs

\* The longest source drawn from LinePool.
MaxLines == 3
\* The passes of main's loop a session makes over a pre-filled directory.
MaxRuns == 2

Str_abcd == <<"a","b","c","d">>
Email_ab == <<"a","@","b",".","c","o","m">>
Email_cd == <<"c","@","d",".","e","e">>
NL == <<"\n">>
SP == <<" ">>

L_account == DEFAULT_ACCOUNT_PREFIX \o SP \o Email_ab \o NL
L_badaccount ==
    DEFAULT_ACCOUNT_PREFIX \o SP \o
    <<"n","o","t","a","n","e","m","a","i","l">> \o NL
L_password == DEFAULT_ITEM_VALUE_PREFIX \o SP \o Str_abcd \o NL
L_short == DEFAULT_ITEM_VALUE_PREFIX \o SP \o <<"a","b">> \o NL
L_array == DEFAULT_ITEM_VALUE_PREFIX \o SP \o <<"[","a","b","c">> \o NL
L_json == DEFAULT_ITEM_VALUE_PREFIX \o SP \o <<"{","\"","a","b">> \o NL
\* both prefixes in one line, the password prefix first
L_both ==
    DEFAULT_ITEM_VALUE_PREFIX \o DEFAULT_ACCOUNT_PREFIX \o SP \o Email_cd \o NL
L_junk == <<"j","u","n","k">> \o NL
\* the password prefix twice
L_twice ==
    DEFAULT_ITEM_VALUE_PREFIX \o SP \o DEFAULT_ITEM_VALUE_PREFIX \o SP \o
    Str_abcd \o NL
L_secret1 ==
    DEFAULT_ITEM_VALUE_PREFIX \o SP \o <<"s","e","c","r","e","t","1">> \o NL
L_secret2 ==
    DEFAULT_ITEM_VALUE_PREFIX \o SP \o <<"s","e","c","r","e","t","2">> \o NL

LinePool ==
    {L_account, L_badaccount, L_password, L_short, L_array, L_json, L_both,
     L_junk, L_twice}

\* The two sources of the documented examples.
ExamplePasswords == <<L_password, L_password, L_short, L_junk>>
ExampleCombos == <<L_account, L_secret1, L_badaccount, L_secret2>>

Sources ==
    UNION {[1..n -> LinePool] : n \in 0..MaxLines}
        \cup {ExamplePasswords, ExampleCombos}

\* (min_length, max_length) as main collects them: 1 <= min <= max.
BoundsPairs == {<<DEFAULT_MIN_LENGTH, DEFAULT_MAX_LENGTH>>, <<2, 6>>}

Slots == 0..DEFAULT_MAX_NUMBER
\* The slots taken before the session starts.
TakenChoices ==
    {{}, {0, 2}, Slots \ {7, 50}, Slots \ {DEFAULT_MAX_NUMBER}, Slots}

\* What an output file of an earlier session holds.
OldContent == <<<<"o","l","d","\n">>>>

Directory(taken) ==
    LET names == {NewName(b, n) : b \in {DEFAULT_FILE_PREFIX_PW,
                                        DEFAULT_FILE_PREFIX_COMBO},
                                  n \in taken}
    IN [f \in names |-> OldContent]

\* ------------------------------------------------------------- state

NoFault == "none"

VARIABLES
    source,           \* the lines of the file at source_file_path
    min_length, max_length,
    runs_left,        \* passes of main's loop still to come
    fs,               \* the directory: file name -> lines
    fs_at_call,       \* history: fs when the current flow was called
    fpc,              \* where main / the flow is
    mode,             \* user_choice: "password" or "combo"
    output_filename,
    stop_event,
    spinner,          \* the spinner thread: "none", "running", "exited"
    epc,              \* where the engine call is
    lines, idx,       \* readlines() and the number of lines iterated
    seen, unique_count, duplicate_count, current_email,
    result,           \* the pair the engine returned, None before
    fault             \* the phase whose exception ended the call, or NoFault

vars ==
    <<source, min_length, max_length, runs_left, fs, fs_at_call, fpc, mode,
      output_filename, stop_event, spinner, epc, lines, idx, seen,
      unique_count, duplicate_count, current_email, result, fault>>

config == <<source, min_length, max_length>>
locals ==
    <<lines, idx, seen, unique_count, duplicate_count, current_email>>

\* The locals at the top of process_file_* (lines 135-137, 195-198).
FreshLocals ==
    /\ lines = <<>>
    /\ idx = 0
    /\ seen = {}
    /\ unique_count = 0
    /\ duplicate_count = 0
    /\ current_email = None

InitCommon ==
    /\ fpc = "menu"
    /\ mode = "none"
    /\ output_filename = None
    /\ stop_event = FALSE
    /\ spinner = "none"
    /\ epc = "idle"
    /\ FreshLocals
    /\ result = None
    /\ fault = NoFault
    /\ fs_at_call = fs

\* One pass over any source, in a directory with a few slots taken.
InitEngine ==
    /\ source \in Sources
    /\ \E b \in BoundsPairs : min_length = b[1] /\ max_length = b[2]
    /\ runs_left = 1
    /\ fs = Directory({0, 2})

\* Several passes over the documented sources, in directories filled to
\* different degrees.
InitSession ==
    /\ source \in {ExamplePasswords, ExampleCombos}
    /\ min_length = DEFAULT_MIN_LENGTH
    /\ max_length = DEFAULT_MAX_LENGTH
    /\ runs_left = MaxRuns
    /\ \E taken \in TakenChoices : fs = Directory(taken)

Init == (InitEngine \/ InitSession) /\ InitCommon

\* ------------------------------------------------------------- main, flows

Base(m) ==
    IF m = "password" THEN DEFAULT_FILE_PREFIX_PW
    ELSE DEFAULT_FILE_PREFIX_COMBO

\* main's menu (lines 388-422) up to the flow's first statement (256, 296):
\* the operator picks a mode and the flow asks for an output name.
CallFlow(m) ==
    /\ fpc = "menu"
    /\ runs_left > 0
    /\ mode' = m
    /\ output_filename' =
           find_available_filename(Base(m), DEFAULT_MAX_NUMBER, DOMAIN fs)
    /\ fs_at_call' = fs
    /\ fpc' = "allocated"
    /\ UNCHANGED <<config, runs_left, fs, stop_event, spinner, epc, locals,
                   result, fault>>

\* if not output_filename: print(...); return  (257-259, 297-299)
FlowNoSlot ==
    /\ fpc = "allocated"
    /\ output_filename = None
    /\ fpc' = "menu"
    /\ mode' = "none"
    /\ runs_left' = runs_left - 1
    /\ UNCHANGED <<config, fs, fs_at_call, output_filename, stop_event,
                   spinner, epc, locals, result, fault>>

\* stop_event = Event(); spinner_thread.start(); the engine is called
\* (261-266, 301-306)
FlowStart ==
    /\ fpc = "allocated"
    /\ output_filename # None
    /\ stop_event' = FALSE
    /\ spinner' = "running"
    /\ fpc' = "processing"
    /\ epc' = "read"
    /\ UNCHANGED <<config, runs_left, fs, fs_at_call, mode, output_filename,
                   locals, result, fault>>

\* stop_event.set() once the engine has returned (273, 314)
FlowSetStop ==
    /\ fpc = "processing"
    /\ epc = "returned"
    /\ stop_event' = TRUE
    /\ fpc' = "joining"
    /\ UNCHANGED <<config, runs_left, fs, fs_at_call, mode, output_filename,
                   spinner, epc, locals, result, fault>>

\* spinner_thread.join() returns, the summary is printed, the flow returns
\* and main loops (274-283, 315-324, 424-426)
FlowJoin ==
    /\ fpc = "joining"
    /\ spinner = "exited"
    /\ fpc' = "menu"
    /\ mode' = "none"
    /\ output_filename' = None
    /\ spinner' = "none"
    /\ stop_event' = FALSE
    /\ epc' = "idle"
    /\ lines' = <<>>
    /\ idx' = 0
    /\ seen' = {}
    /\ unique_count' = 0
    /\ duplicate_count' = 0
    /\ current_email' = None
    /\ result' = None
    /\ fault' = NoFault
    /\ runs_left' = runs_left - 1
    /\ UNCHANGED <<config, fs, fs_at_call>>

\* An exception the engine did not catch leaves the flow at the call
\* (266, 306): lines 273-274 are skipped, main's `except Exception` (438-441)
\* prints and returns.
FlowAbort ==
    /\ fpc = "processing"
    /\ epc = "raised"
    /\ fpc' = "aborted"
    /\ UNCHANGED <<config, runs_left, fs, fs_at_call, mode, output_filename,
                   stop_event, spinner, epc, locals, result, fault>>

\* ------------------------------------------------------------- spinner

\* spinner_task, one turn of `while not event.is_set()` (70-73): prints a
\* frame and sleeps.
SpinnerTurn ==
    /\ spinner = "running"
    /\ ~stop_event
    /\ UNCHANGED vars

\* spinner_task leaves the loop and the thread ends.
SpinnerExit ==
    /\ spinner = "running"
    /\ stop_event
    /\ spinner' = "exited"
    /\ UNCHANGED <<config, runs_left, fs, fs_at_call, fpc, mode,
                   output_filename, stop_event, epc, locals, result, fault>>

\* ------------------------------------------------------------- engine

\* What open(source, 'r') and readlines() can do: succeed, raise one of the
\* three exceptions lines 143-151 (204-212) catch, or raise one they do not
\* (text mode decodes the bytes: UnicodeDecodeError is a ValueError).
ReadOutcomes ==
    {"ok", "FileNotFoundError", "PermissionError", "OSError",
     "UnicodeDecodeError"}

CaughtOnRead == {"FileNotFoundError", "PermissionError", "OSError"}

\* The except clauses of the read phase: does the engine handle `outcome`?
ReadHandled(outcome) == outcome \in CaughtOnRead

\* try: open(source_file_path, 'r'); lines = readlines()  (140-151, 201-212)
ReadSource ==
    /\ fpc = "processing"
    /\ epc = "read"
    /\ \E outcome \in ReadOutcomes :
          IF outcome = "ok"
          THEN /\ lines' = source
               /\ epc' = "open"
               /\ UNCHANGED <<result, fault>>
          ELSE /\ fault' = "read"
               /\ lines' = lines
               /\ IF ReadHandled(outcome)
                  THEN epc' = "returned" /\ result' = <<0, 0>>
                  ELSE epc' = "raised" /\ result' = result
    /\ UNCHANGED <<config, runs_left, fs, fs_at_call, fpc, mode,
                   output_filename, stop_event, spinner, idx, seen,
                   unique_count, duplicate_count, current_email>>

\* open(output_file_path, 'w'): creates the file or truncates it
OpenForWriting(dir, name) ==
    IF name \in DOMAIN dir
    THEN [dir EXCEPT ![name] = <<>>]
    ELSE [f \in DOMAIN dir \cup {name} |-> IF f = name THEN <<>> ELSE dir[f]]

\* with open(output_file_path, 'w')  (155, 216), or the PermissionError /
\* OSError it raises, caught at 168-173 (237-242): return 0, 0
OpenOutput ==
    /\ fpc = "processing"
    /\ epc = "open"
    /\ \/ /\ fs' = OpenForWriting(fs, output_filename)
          /\ epc' = "loop"
          /\ UNCHANGED <<result, fault>>
       \/ /\ fault' = "open"
          /\ epc' = "returned"
          /\ result' = <<0, 0>>
          /\ fs' = fs
    /\ UNCHANGED <<config, runs_left, fs_at_call, fpc, mode, output_filename,
                   stop_event, spinner, locals>>

\* The Deduplicating Sink (162-167, 231-236): a first offer is written and
\* counted unique, unless the write raises OSError (171-173, 240-242); a
\* repeat is counted duplicate.
Offer(record) ==
    IF ~IsDuplicate(record, seen)
    THEN \/ /\ fs' = [fs EXCEPT ![output_filename] = WriteLine(@, record)]
            /\ seen' = SeenAdd(seen, record)
            /\ unique_count' = CountUnique(unique_count)
            /\ idx' = idx + 1
            /\ UNCHANGED <<duplicate_count, epc, result, fault>>
         \/ /\ fault' = "write"
            /\ epc' = "returned"
            /\ result' = <<0, 0>>
            /\ UNCHANGED <<fs, seen, unique_count, duplicate_count, idx>>
    ELSE /\ duplicate_count' = CountDuplicate(duplicate_count)
         /\ idx' = idx + 1
         /\ UNCHANGED <<fs, seen, unique_count, epc, result, fault>>

\* A line that changes nothing but the loop's position.
SkipLine ==
    /\ idx' = idx + 1
    /\ UNCHANGED <<fs, seen, unique_count, duplicate_count, epc, result,
                   fault>>

\* process_file_passwordlist, one turn of `for line in lines` (156-167),
\* called with the default prefix
ProcessLinePasswordlist ==
    /\ fpc = "processing"
    /\ epc = "loop"
    /\ mode = "password"
    /\ idx < Len(lines)
    /\ LET line == lines[idx + 1]
           prefix == DEFAULT_ITEM_VALUE_PREFIX
       IN IF Contains(prefix, line)
          THEN LET password == ExtractValue(prefix, line)
               IN IF PasswordOk(password, min_length, max_length)
                  THEN Offer(password)
                  ELSE SkipLine
          ELSE SkipLine
    /\ UNCHANGED <<config, runs_left, fs_at_call, fpc, mode, output_filename,
                   stop_event, spinner, lines, current_email>>

\* process_file_combolist, one turn of `for line in lines` (217-236), called
\* with the default prefixes
ProcessLineCombolist ==
    /\ fpc = "processing"
    /\ epc = "loop"
    /\ mode = "combo"
    /\ idx < Len(lines)
    /\ LET line == lines[idx + 1]
           account_prefix == DEFAULT_ACCOUNT_PREFIX
           password_prefix == DEFAULT_ITEM_VALUE_PREFIX
           kind == Classify(line, account_prefix, password_prefix)
       IN CASE kind = "account" ->
                 /\ current_email' =
                        AccountUpdate(current_email,
                                      ExtractValue(account_prefix, line))
                 /\ SkipLine
            [] kind = "password" ->
                 LET password_candidate == ExtractValue(password_prefix, line)
                 IN /\ current_email' = current_email
                    /\ IF /\ current_email # None
                          /\ PasswordOk(password_candidate, min_length,
                                        max_length)
                       THEN Offer(ComboLine(current_email,
                                            password_candidate))
                       ELSE SkipLine
            [] OTHER -> current_email' = current_email /\ SkipLine
    /\ UNCHANGED <<config, runs_left, fs_at_call, fpc, mode, output_filename,
                   stop_event, spinner, lines>>

\* The loop is over: the with block closes the file and the counts are
\* returned (175, 244), unless closing raises OSError (171-173, 240-242).
EngineReturn ==
    /\ fpc = "processing"
    /\ epc = "loop"
    /\ idx = Len(lines)
    /\ epc' = "returned"
    /\ \/ result' = <<unique_count, duplicate_count>> /\ fault' = fault
       \/ result' = <<0, 0>> /\ fault' = "close"
    /\ UNCHANGED <<config, runs_left, fs, fs_at_call, fpc, mode,
                   output_filename, stop_event, spinner, locals>>

\* ------------------------------------------------------------- specification

Next ==
    \/ \E m \in {"password", "combo"} : CallFlow(m)
    \/ FlowNoSlot
    \/ FlowStart
    \/ ReadSource
    \/ OpenOutput
    \/ ProcessLinePasswordlist
    \/ ProcessLineCombolist
    \/ EngineReturn
    \/ FlowSetStop
    \/ FlowJoin
    \/ FlowAbort
    \/ SpinnerTurn
    \/ SpinnerExit

Spec == Init /\ [][Next]_vars

\* The steps of the main thread once a flow is called, and of the spinner
\* thread once the event is set: each thread runs when it can.  The operator
\* need not call another flow, and a turn of the spinner changes nothing.
MainThread ==
    \/ FlowNoSlot
    \/ FlowStart
    \/ ReadSource
    \/ OpenOutput
    \/ ProcessLinePasswordlist
    \/ ProcessLineCombolist
    \/ EngineReturn
    \/ FlowSetStop
    \/ FlowJoin
    \/ FlowAbort

\* The sessions over the documented sources, with both threads fair.
FairInit == InitSession /\ InitCommon

FairSpec ==
    /\ FairInit
    /\ [][Next]_vars
    /\ WF_vars(MainThread)
    /\ WF_vars(SpinnerExit)

\* ------------------------------------------------------------- properties

\* The engine holds an open output file, or held one until it returned.
Opened ==
    \/ epc = "loop"
    \/ epc = "returned" /\ fault \in {"none", "write", "close"}

\* The lines written to the output file by the current call.
Written == IF Opened THEN fs[output_filename] ELSE <<>>

\* The call returned its counts without meeting an I/O error.
ReturnedClean == epc = "returned" /\ fault = NoFault

Least(S) == CHOOSE i \in S : \A j \in S : i <= j
Greatest(S) == CHOOSE i \in S : \A j \in S : j <= i

\* s without its leading and trailing whitespace
Trimmed(s) ==
    LET keep == {i \in 1..Len(s) : s[i] \notin Whitespace}
    IN IF keep = {} THEN <<>> ELSE SubSeq(s, Least(keep), Greatest(keep))

\* The trimmed text after the first occurrence of prefix in line.
ValueAfterFirst(prefix, line) ==
    LET first == Least(Occurrences(prefix, line))
    IN Trimmed(SubSeq(line, first + Len(prefix), Len(line)))

IsAccountLine(line) == Contains(DEFAULT_ACCOUNT_PREFIX, line)
HasPasswordPrefix(line) == Contains(DEFAULT_ITEM_VALUE_PREFIX, line)

\* min <= len(p) <= max and p starts with neither {" nor [
WithinBoundsAndPlain(p) ==
    /\ min_length <= Len(p)
    /\ Len(p) <= max_length
    /\ ~(Len(p) >= 2 /\ p[1] = "{" /\ p[2] = "\"")
    /\ ~(Len(p) >= 1 /\ p[1] = "[")

\* What a line is: whether it holds the account prefix and the password
\* prefix, the trimmed text after the first occurrence of each, and whether
\* the former passes the email check.
LineFacts(line) ==
    LET acct == IsAccountLine(line)
        pw == HasPasswordPrefix(line)
    IN [acct |-> acct,
        pw |-> pw,
        email |-> IF acct
                  THEN ValueAfterFirst(DEFAULT_ACCOUNT_PREFIX, line)
                  ELSE <<>>,
        valid |-> acct /\ is_valid_email(
                              ValueAfterFirst(DEFAULT_ACCOUNT_PREFIX, line)),
        password |-> IF pw
                     THEN ValueAfterFirst(DEFAULT_ITEM_VALUE_PREFIX, line)
                     ELSE <<>>]

\* The facts of every line a source can hold, by line.
AllLines == UNION {{src[j] : j \in 1..Len(src)} : src \in Sources}
FactsByLine == [line \in AllLines |-> LineFacts(line)]

\* What each line of ls is.
Reading(ls) == [j \in 1..Len(ls) |-> FactsByLine[ls[j]]]

\* The account state before line j of a reading R: decided by the most
\* recent account line alone.
Held(R, j) ==
    LET accounts == {i \in 1..(j - 1) : R[i].acct}
    IN IF accounts = {} THEN None
       ELSE LET last == R[Greatest(accounts)]
            IN IF last.valid THEN last.email ELSE None

\* Line j passed classification and validation.
Accepted(R, j) ==
    IF mode = "password"
    THEN R[j].pw /\ WithinBoundsAndPlain(R[j].password)
    ELSE /\ ~R[j].acct
         /\ R[j].pw
         /\ Held(R, j) # None
         /\ WithinBoundsAndPlain(R[j].password)

\* The record an accepted line j offers to the sink.
RecordOf(R, j) ==
    IF mode = "password" THEN R[j].password
    ELSE Held(R, j) \o <<":">> \o R[j].password

\* The accepted lines among the first k.
AcceptedUpTo(R, k) == {j \in 1..k : Accepted(R, j)}

\* The records of the accepted lines among the first k, by line.
RecordsUpTo(R, k) == [j \in AcceptedUpTo(R, k) |-> RecordOf(R, j)]

\* The lines that offer a record no earlier line offered.
FirstOffers(recs) ==
    {j \in DOMAIN recs : \A i \in DOMAIN recs : i < j => recs[i] # recs[j]}

s_endswith(s, t) ==
    Len(s) >= Len(t) /\ SubSeq(s, Len(s) - Len(t) + 1, Len(s)) = t

\* C1: every line written to the output file was built from the trimmed text
\* p after the first occurrence of the password prefix in some source line,
\* with min <= len(p) <= max and p starting with neither {" nor [ (the whole
\* line in password mode, the part after "email:" in combo mode).
C1_PasswordPartValid ==
    LET R == Reading(lines)
    IN \A k \in 1..Len(Written) :
          \E j \in 1..idx :
              /\ R[j].pw
              /\ WithinBoundsAndPlain(R[j].password)
              /\ IF mode = "password"
                 THEN Written[k] = R[j].password \o <<"\n">>
                 ELSE s_endswith(Written[k],
                                 <<":">> \o R[j].password \o <<"\n">>)

\* A clean return in combo mode: of two password lines read while an account
\* was held, the one with the array-shaped value was dropped and the other
\* written.
C1_Witness ==
    /\ ReturnedClean
    /\ mode = "combo"
    /\ lines = <<L_account, L_array, L_password>>
    /\ Written = <<Email_ab \o <<":">> \o Str_abcd \o <<"\n">>>>

\* C2: the output file holds exactly the accepted records of the lines
\* iterated so far, each once, in the order of their first occurrence: no
\* two written lines are equal and a repeat is never written.
C2_OutputIsFirstOccurrences ==
    Opened =>
        LET recs == RecordsUpTo(Reading(lines), idx)
            firsts == FirstOffers(recs)
        IN /\ Len(Written) = Cardinality(firsts)
           /\ \A j \in firsts :
                 Written[Cardinality({i \in firsts : i <= j})] =
                     recs[j] \o <<"\n">>
           /\ \A a, b \in 1..Len(Written) : a # b => Written[a] # Written[b]

\* A clean return where a repeat was dropped and a later, new record was
\* written after it.
C2_Witness ==
    /\ ReturnedClean
    /\ Len(Written) = 2
    /\ duplicate_count = 1
    /\ LET recs == RecordsUpTo(Reading(lines), idx)
       IN /\ DOMAIN recs = {1, 2, 3}
          /\ FirstOffers(recs) = {1, 3}

\* C3: at a return without I/O error, unique + duplicate is the number of
\* source lines that passed classification and validation, and unique is
\* the size of the seen-set and the number of lines written; lines that are
\* not accepted change neither counter; the documented password example
\* returns (1, 1).
C3_CountsAddUp ==
    /\ epc = "loop" =>
          /\ unique_count + duplicate_count =
                 Cardinality(AcceptedUpTo(Reading(lines), idx))
          /\ unique_count = Cardinality(seen)
          /\ unique_count = Len(Written)
    /\ ReturnedClean =>
          /\ idx = Len(lines)
          /\ result[1] + result[2] =
                 Cardinality(AcceptedUpTo(Reading(lines), Len(lines)))
          /\ result[1] = Cardinality(seen)
          /\ result[1] = Len(Written)
          /\ (/\ lines = ExamplePasswords
              /\ mode = "password"
              /\ min_length = 4 /\ max_length = 64) => result = <<1, 1>>

\* The documented password example has returned.
C3_Witness ==
    /\ ReturnedClean
    /\ lines = ExamplePasswords
    /\ mode = "password"
    /\ min_length = 4 /\ max_length = 64
    /\ result = <<1, 1>>

\* C4: in combo mode the account state is decided by the most recent account
\* line alone (its value if it passes the email check, None otherwise or when
\* there is none); password lines leave it alone, and every record written
\* pairs a password line with the email held when that line was read.  The
\* documented combo example writes a@b.com:secret1 and returns (1, 0).
C4_AccountStateIsLastAccountLine ==
    (mode = "combo" /\ Opened) =>
        LET R == Reading(lines)
        IN /\ current_email = Held(R, idx + 1)
           /\ \A k \in 1..Len(Written) :
                 \E j \in 1..idx :
                     /\ R[j].pw /\ ~R[j].acct
                     /\ Held(R, j) # None
                     /\ Written[k] =
                            Held(R, j) \o <<":">> \o R[j].password \o <<"\n">>
           /\ (/\ ReturnedClean
               /\ lines = ExampleCombos
               /\ min_length = 4 /\ max_length = 64) =>
                  /\ Written =
                         <<Email_ab \o <<":","s","e","c","r","e","t","1","\n">>>>
                  /\ result = <<1, 0>>

\* The documented combo example has returned: the invalid account line
\* cleared the state although a valid email came before it.
C4_Witness ==
    /\ ReturnedClean
    /\ mode = "combo"
    /\ lines = ExampleCombos
    /\ min_length = 4 /\ max_length = 64
    /\ current_email = None
    /\ Len(Written) = 1

\* C7: in combo mode a line holding the account prefix only sets or clears
\* the account state, by the email check on the text after the first
\* occurrence of the account prefix, also when it holds the password prefix:
\* it writes nothing and changes no counter.
C7_AccountLineOnly ==
    [][(/\ mode = "combo"
        /\ epc = "loop"
        /\ idx < Len(lines)
        /\ FactsByLine[lines[idx + 1]].acct)
       => (/\ epc' = "loop"
           /\ idx' = idx + 1
           /\ fs' = fs
           /\ seen' = seen
           /\ unique_count' = unique_count
           /\ duplicate_count' = duplicate_count
           /\ current_email' =
                  IF FactsByLine[lines[idx + 1]].valid
                  THEN FactsByLine[lines[idx + 1]].email
                  ELSE None)]_vars

\* A line with both prefixes was read while an account was held: it replaced
\* the held email and nothing was written.
C7_Witness ==
    /\ mode = "combo"
    /\ epc = "loop"
    /\ idx = 2
    /\ lines[1] = L_account
    /\ lines[2] = L_both
    /\ current_email = Email_cd
    /\ Written = <<>>
    /\ unique_count = 0 /\ duplicate_count = 0

\* A written line without its line terminator.
RecordText(w) == SubSeq(w, 1, Len(w) - 1)

\* C8 as stated: every emitted record as a whole is within the length bounds
\* and starts with neither {" nor [.
C8_WholeRecordValid ==
    \A k \in 1..Len(Written) : WithinBoundsAndPlain(RecordText(Written[k]))

\* C8 amended: a password-mode record as a whole is within the bounds and
\* plain; a combo-mode record is email ":" password with the email passing
\* the email check and the password part alone within the bounds and plain.
C8_PasswordPartOfRecordValid ==
    \A k \in 1..Len(Written) :
        LET r == RecordText(Written[k])
        IN IF mode = "password"
           THEN WithinBoundsAndPlain(r)
           ELSE \E c \in 1..Len(r) :
                   /\ r[c] = ":"
                   /\ is_valid_email(SubSeq(r, 1, c - 1))
                   /\ WithinBoundsAndPlain(SubSeq(r, c + 1, Len(r)))

\* A combo record longer than max_length was written.
C8_Witness ==
    /\ ReturnedClean
    /\ mode = "combo"
    /\ Len(Written) >= 1
    /\ Len(RecordText(Written[1])) > max_length

\* C5 as stated: a read-phase error of any kind ends the engine call with
\* the return value (0, 0) and the directory as it was when the flow was
\* called.
C5_ReadErrorReturnsZero ==
    fault = "read" =>
        /\ epc = "returned"
        /\ result = <<0, 0>>
        /\ fs = fs_at_call

\* base_NN.txt
SlotName(base, n) == <<base, "_", <<n \div 10, n % 10>>, ".txt">>

\* C6: the name allocated is base_NN.txt for the lowest NN in 00..99 whose
\* file does not exist, None exactly when all hundred exist; and a flow that
\* got None returns at once: no file is read, created or written.
C6_LowestFreeSlot ==
    /\ [](fpc = "allocated" =>
            LET free == {n \in 0..DEFAULT_MAX_NUMBER :
                            SlotName(Base(mode), n) \notin DOMAIN fs}
            IN IF free = {} THEN output_filename = None
               ELSE output_filename = SlotName(Base(mode), Least(free)))
    /\ [][(fpc = "allocated" /\ output_filename = None)
          => (/\ fpc' = "menu"
              /\ fs' = fs
              /\ epc' = "idle" /\ epc = "idle"
              /\ spinner' = "none"
              /\ lines' = <<>>)]_vars

\* A flow took the last free slot, 99, and the next flow of that mode got
\* None.
C6_Witness ==
    /\ fpc = "allocated"
    /\ mode = "password"
    /\ output_filename = None
    /\ fs[SlotName(DEFAULT_FILE_PREFIX_PW, 99)] # OldContent
    /\ fs_at_call = fs

\* C9 as stated, in the form a finite run decides: once the flow has left the
\* engine call, however the call ended, the stop signal is set (only the flow
\* holds the event, so a flow that left without setting it never will, and
\* the spinner thread never ends).
C9_StopSetOnceCallIsLeft ==
    fpc \in {"joining", "aborted"} => stop_event

\* C9 as a liveness property, under FairSpec: once the engine call has ended
\* with the spinner running, the stop signal is eventually set and the
\* spinner thread ends.
C9_SpinnerEventuallyStops ==
    (spinner = "running" /\ epc \in {"returned", "raised"})
        ~> (stop_event /\ spinner = "exited")

\* C9, the part that holds: a step of the spinner thread changes nothing but
\* the thread's own position.
C9_SpinnerTouchesNothing ==
    [][spinner' # spinner /\ spinner = "running"
       => UNCHANGED <<config, runs_left, fs, fs_at_call, fpc, mode,
                      output_filename, stop_event, epc, locals, result,
                      fault>>]_vars

\* C10: a flow invocation leaves every file that existed when it was called
\* as it was, opens for writing only a name that did not exist then, creates
\* at most one file, and creates none when every slot of its base existed.
C10_EarlierOutputsKept ==
    LET created == DOMAIN fs \ DOMAIN fs_at_call
    IN /\ \A f \in DOMAIN fs_at_call :
             f \in DOMAIN fs /\ fs[f] = fs_at_call[f]
       /\ Cardinality(created) <= 1
       /\ fpc \in {"allocated", "processing", "joining", "aborted"} =>
             created \subseteq {output_filename}
       /\ Opened => output_filename \in created
       /\ (/\ mode # "none"
           /\ \A n \in 0..DEFAULT_MAX_NUMBER :
                 SlotName(Base(mode), n) \in DOMAIN fs_at_call)
          => fs = fs_at_call

\* Two combo flows in a row over a source without account lines: each left
\* an empty file in a slot of its own, beside the old files.
C10_Witness ==
    /\ fpc = "menu"
    /\ runs_left = 0
    /\ source = ExamplePasswords
    /\ DOMAIN fs =
          DOMAIN Directory({0, 2}) \cup
              {SlotName(DEFAULT_FILE_PREFIX_COMBO, 1),
               SlotName(DEFAULT_FILE_PREFIX_COMBO, 3)}
    /\ fs[SlotName(DEFAULT_FILE_PREFIX_COMBO, 1)] = <<>>
    /\ fs[SlotName(DEFAULT_FILE_PREFIX_COMBO, 3)] = <<>>
    /\ fs[SlotName(DEFAULT_FILE_PREFIX_COMBO, 0)] = OldContent

====
